---- MODULE Spec2Model ----
(***************************************************************************)
(* The user-account service: Express routes in front of a relational       *)
(* store, guarded by authenticateToken and authorizeAdmin.  Two variants   *)
(* of the server are modelled: "pg" (src/index.js, pool.query per          *)
(* statement) and "pool" (src/unnamed/part_000, a connection checked out   *)
(* of the pool per request and released in a finally block; this variant   *)
(* also has the admin route PUT /users/:id).                               *)
(*                                                                         *)
(* A request occupies a slot of reqs from its arrival to its response.     *)
(* Code between two awaits of a handler runs without interruption, so an   *)
(* action is: the arrival of a request up to its first await (guards and   *)
(* validation included), or the continuation of a handler after one await  *)
(* up to the next one or to the response (catch and finally included).     *)
(***************************************************************************)
EXTENDS Integers, Sequences, FiniteSets, TLC

VARIABLES
  variant,     \* which server file runs: "pg" or "pool"
  users,       \* the users table: a set of rows
  nextId,      \* the next store-assigned id
  now,         \* the clock, in minutes
  issued,      \* the tokens jwt.sign has produced so far (held by clients)
  reqs,        \* slot -> the request in it, its handler's locals and response
  checkedOut   \* connections currently checked out of the pool

vars == <<variant, users, nextId, now, issued, reqs, checkedOut>>

(***************************************************************************)
(* Bounds of the model.                                                    *)
(***************************************************************************)
MaxId == 2          \* registrations arrive while the next id is at most this
MaxTokens == 1      \* tokens issued in one behaviour
PoolSize == 1       \* connections of the pool
Slots == {1}        \* one request in flight at a time
Slots2 == {1, 2}    \* two requests in flight at once
Instants == {0, 1, 59, 60, 61}   \* the clock readings sampled, in minutes

(***************************************************************************)
(* Program constants.                                                      *)
(***************************************************************************)
ExpiresIn == 60          \* jwt.sign(..., { expiresIn: '1h' }), in minutes
MinPasswordLength == 8   \* password.length < 8

\* process.env.JWT_SECRET || 'a_default_fallback_secret'
JWT_SECRET == "secret"

(***************************************************************************)
(* Values.  JavaScript's undefined and the empty string are both falsy;    *)
(* a missing body field and an empty one are the string "".                *)
(***************************************************************************)
Falsy(x) == x = ""
Undefined == [k |-> "undefined"]
NoBody == [k |-> "none"]
ErrorBody(msg) == [k |-> "error", error |-> msg]

Names == {"", "taro"}
Emails == {"", "a@x", "b@x"}
Passwords == {"", "seven77", "password", "password2"}
Roles == {"", "admin", "user"}
Ids == 1..MaxId

(***************************************************************************)
(* bcrypt.  The salt is abstracted: a digest is the password under a tag,  *)
(* never the plaintext itself, and compare succeeds for that password only.*)
(***************************************************************************)
BcryptHash(password) == [k |-> "bcrypt", of |-> password]
BcryptCompare(password, digest) == digest = BcryptHash(password)

(***************************************************************************)
(* The Authorization header: absent, or a string given by its fields       *)
(* between single spaces (what split(' ') returns).  The empty string      *)
(* splits to one empty field.                                              *)
(***************************************************************************)
EmptyWord == [k |-> "empty"]
BearerWord == [k |-> "Bearer"]
GarbageWord == [k |-> "garbage"]
AbsentHeader == [present |-> FALSE, parts |-> <<>>]
HeaderOf(parts) == [present |-> TRUE, parts |-> parts]
EmptyHeader == HeaderOf(<<EmptyWord>>)

\* const token = authHeader && authHeader.split(' ')[1];
TokenOf(authHeader) ==
  IF ~authHeader.present THEN Undefined
  ELSE IF authHeader.parts = <<EmptyWord>> THEN EmptyWord
  ELSE IF Len(authHeader.parts) >= 2 THEN authHeader.parts[2]
  ELSE Undefined

\* Mutant of JwtSign: the expiry set two hours ahead.
JwtSignTwoHours(user, secret, t) ==
  [k |-> "jwt", id |-> user.id, email |-> user.email, role |-> user.role,
   iat |-> t, exp |-> t + 2 * 60, sig |-> secret]

\* jwt.sign(payload, JWT_SECRET, { expiresIn: '1h' })
JwtSign(user, secret, t) ==
  [k |-> "jwt", id |-> user.id, email |-> user.email, role |-> user.role,
   iat |-> t, exp |-> t + ExpiresIn, sig |-> secret]

\* jwt.verify(token, JWT_SECRET, callback): err is set unless the token is a
\* JWT signed with the secret and not yet expired
JwtVerifyErr(token, secret, t) ==
  ~(token.k = "jwt" /\ token.sig = secret /\ t < token.exp)

JwtDecoded(token) ==
  [k |-> "claims", id |-> token.id, email |-> token.email, role |-> token.role,
   iat |-> token.iat, exp |-> token.exp]

(***************************************************************************)
(* The guards.  Each returns the status it answers with (0: it called      *)
(* next()) and req.user as it leaves it.                                   *)
(***************************************************************************)
\* Mutant of authenticateToken: the token's user must still have a row with
\* the token's role.
authenticateTokenAgainstStore(authHeader, user, t) ==
  LET token == IF ~authHeader.present THEN Undefined
               ELSE IF Len(authHeader.parts) >= 2 THEN authHeader.parts[2]
               ELSE Undefined
  IN IF token = Undefined THEN [status |-> 401, user |-> user]
     ELSE IF ~(token.k = "jwt" /\ token.sig = JWT_SECRET /\ t < token.exp)
             \/ ~\E u \in users : u.id = token.id /\ u.role = token.role
          THEN [status |-> 403, user |-> user]
     ELSE [status |-> 0,
           user |-> [k |-> "claims", id |-> token.id, email |-> token.email,
                     role |-> token.role, iat |-> token.iat, exp |-> token.exp]]

authenticateToken(authHeader, user, t) ==
  LET token == TokenOf(authHeader)
  IN IF token = Undefined THEN [status |-> 401, user |-> user]
     ELSE IF JwtVerifyErr(token, JWT_SECRET, t) THEN [status |-> 403, user |-> user]
     ELSE [status |-> 0, user |-> JwtDecoded(token)]

\* Mutant of authorizeAdmin: any authenticated user passes.
authorizeAnyUser(user) ==
  IF user # Undefined
  THEN [status |-> 0, user |-> user]
  ELSE [status |-> 403, user |-> user]

authorizeAdmin(user) ==
  IF user # Undefined /\ user.role = "admin"
  THEN [status |-> 0, user |-> user]
  ELSE [status |-> 403, user |-> user]

RunGuard(g, authHeader, user, t) ==
  IF g = "authenticateToken" THEN authenticateToken(authHeader, user, t)
  ELSE authorizeAdmin(user)

\* Express runs a route's middleware in order; one that answers without
\* calling next() ends the request.
RECURSIVE RunGuards(_, _, _, _)
RunGuards(guards, authHeader, user, t) ==
  IF guards = <<>> THEN [status |-> 0, user |-> user]
  ELSE LET r == RunGuard(Head(guards), authHeader, user, t)
       IN IF r.status # 0 THEN r
          ELSE RunGuards(Tail(guards), authHeader, r.user, t)

GuardsOf(route) ==
  CASE route = "POST /users" -> <<>>
    [] route = "POST /login" -> <<>>
    [] route = "PUT /users/me/password" -> <<"authenticateToken">>
    [] route = "GET /users" -> <<"authenticateToken", "authorizeAdmin">>
    [] route = "PUT /users/:id" -> <<"authenticateToken", "authorizeAdmin">>
    [] route = "DELETE /users/:id" -> <<"authenticateToken", "authorizeAdmin">>

(***************************************************************************)
(* Requests.  A slot holds the request (route, Authorization header, :id,  *)
(* body), the handler's locals (req.user, conn, hashedPassword, the row    *)
(* login read, the err it caught), the await it is suspended at (pc) and   *)
(* the response it sent.  releases counts the calls of conn.release().     *)
(***************************************************************************)
NoFields == [name |-> "", email |-> "", password |-> "", newPassword |-> "", role |-> ""]

IdleReq ==
  [route |-> "idle", pc |-> "idle", auth |-> AbsentHeader, id |-> 0,
   body |-> NoFields, user |-> Undefined, conn |-> FALSE, releases |-> 0,
   hashed |-> Undefined, row |-> Undefined, err |-> "none",
   status |-> 0, res |-> NoBody]

\* res.status(status).json(body), res.sendStatus(status)
Respond(r, status, body) == [r EXCEPT !.pc = "done", !.status = status, !.res = body]

\* Mutant of Finally: a response sent from inside try (an early return)
\* skips the release.
FinallyUnlessReturned(r) ==
  IF r.conn /\ r.err # "none" THEN [r EXCEPT !.releases = @ + 1] ELSE r

\* finally { if (conn) conn.release(); }
Finally(r) == IF r.conn THEN [r EXCEPT !.releases = @ + 1] ELSE r

\* The first await of a handler once the connection (if any) is there.
AfterConnection(route) ==
  CASE route = "POST /users" -> "hash"
    [] route = "POST /login" -> "selectByEmail"
    [] route = "PUT /users/me/password" -> "hash"
    [] route = "GET /users" -> "selectAll"
    [] route = "PUT /users/:id" -> "updateUser"
    [] route = "DELETE /users/:id" -> "deleteUser"

FirstAwait(v, route) == IF v = "pool" THEN "getConnection" ELSE AfterConnection(route)

\* Mutant of PostUsersCatch: the duplicate-key code is not mapped.
PostUsersCatchUnmapped(v, err) == [status |-> 500, res |-> ErrorBody("server error")]

\* The catch block of POST /users maps the driver's duplicate-key code.
PostUsersCatch(v, err) ==
  IF (v = "pg" /\ err = "23505") \/ (v = "pool" /\ err = "ER_DUP_ENTRY")
  THEN [status |-> 409, res |-> ErrorBody("email already used")]
  ELSE [status |-> 500, res |-> ErrorBody("server error")]

\* Every other catch block answers 500.
OtherCatch(v, err) == [status |-> 500, res |-> ErrorBody("server error")]

Catch(v, route, err) ==
  IF route = "POST /users" THEN PostUsersCatch(v, err) ELSE OtherCatch(v, err)

\* An awaited call throws err inside try: catch answers, finally releases.
Throw(v, r, err) ==
  LET c == Catch(v, r.route, err)
  IN Finally(Respond([r EXCEPT !.err = err], c.status, c.res))

(***************************************************************************)
(* The store.  The statements are those of the source; the unique index    *)
(* on email, the default role of a new row and the driver's duplicate-key  *)
(* code are the schema's and the driver's.                                 *)
(***************************************************************************)
DefaultRole == "user"
\* err.code of a duplicate key: PostgreSQL's SQLSTATE, MariaDB's error name
UniqueViolation(v) == IF v = "pg" THEN "23505" ELSE "ER_DUP_ENTRY"
EmailTaken(table, email, exceptId) ==
  \E u \in table : u.email = email /\ u.id # exceptId

SeedAdmin ==
  [id |-> 1, name |-> "taro", email |-> "a@x",
   password |-> BcryptHash("password"), role |-> "admin"]

\* INSERT INTO users (name, email, password) VALUES (?, ?, ?)
InsertRow(id, body, hashed) ==
  [id |-> id, name |-> body.name, email |-> body.email,
   password |-> hashed, role |-> DefaultRole]

\* SELECT * FROM users WHERE email = ?
SelectByEmail(table, email) == {u \in table : u.email = email}

\* SELECT id, name, email, role FROM users
SelectAll(table) ==
  {[id |-> u.id, name |-> u.name, email |-> u.email, role |-> u.role] : u \in table}

\* UPDATE users SET password = ? WHERE id = ?
UpdatePassword(table, id, hashed) ==
  {IF u.id = id THEN [u EXCEPT !.password = hashed] ELSE u : u \in table}

\* UPDATE users SET name = ?, email = ?, role = ? WHERE id = ?
UpdateUser(table, id, body) ==
  {IF u.id = id
   THEN [u EXCEPT !.name = body.name, !.email = body.email, !.role = body.role]
   ELSE u : u \in table}

\* Mutant of DeleteUser: WHERE id >= ?
DeleteUserFrom(table, id) == {u \in table : u.id < id}

\* DELETE FROM users WHERE id = ?
DeleteUser(table, id) == {u \in table : u.id # id}

AffectedRows(table, id) == Cardinality({u \in table : u.id = id})

(***************************************************************************)
(* Arrival of a request: the guards of its route, its validation, and, if  *)
(* both let it through, its handler up to the first await.                 *)
(***************************************************************************)
InFlight(route) == Cardinality({s \in DOMAIN reqs : reqs[s].route = route /\ reqs[s].pc # "done"})

Arrive(s, route, auth, id, body, invalid, msg) ==
  /\ reqs[s].pc = "idle"
  /\ LET g == RunGuards(GuardsOf(route), auth, Undefined, now)
         r == [IdleReq EXCEPT !.route = route, !.auth = auth, !.id = id,
                              !.body = body, !.user = g.user]
     IN reqs' = [reqs EXCEPT ![s] =
                   IF g.status # 0 THEN Respond(r, g.status, NoBody)
                   ELSE IF invalid THEN Respond(r, 400, ErrorBody(msg))
                   ELSE [r EXCEPT !.pc = FirstAwait(variant, route)]]
  /\ UNCHANGED <<variant, users, nextId, now, issued, checkedOut>>

\* Mutant of PostUsersInvalid: password.length < 7
PostUsersInvalidOffByOne(name, email, password) ==
  Falsy(name) \/ Falsy(email) \/ Falsy(password) \/ Len(password) < MinPasswordLength - 1

\* if (!name || !email || !password || password.length < 8)
PostUsersInvalid(name, email, password) ==
  Falsy(name) \/ Falsy(email) \/ Falsy(password) \/ Len(password) < MinPasswordLength

PostUsers(s, name, email, password) ==
  /\ nextId <= MaxId
  /\ Arrive(s, "POST /users", AbsentHeader, 0,
            [NoFields EXCEPT !.name = name, !.email = email, !.password = password],
            PostUsersInvalid(name, email, password), "name, email, password required")

\* if (!email || !password)
PostLoginInvalid(email, password) == Falsy(email) \/ Falsy(password)

PostLogin(s, email, password) ==
  /\ Cardinality(issued) + InFlight("POST /login") < MaxTokens
  /\ Arrive(s, "POST /login", AbsentHeader, 0,
            [NoFields EXCEPT !.email = email, !.password = password],
            PostLoginInvalid(email, password), "email and password required")

\* if (!newPassword || newPassword.length < 8)
PutMyPasswordInvalid(newPassword) ==
  Falsy(newPassword) \/ Len(newPassword) < MinPasswordLength

PutMyPassword(s, auth, newPassword) ==
  Arrive(s, "PUT /users/me/password", auth, 0,
         [NoFields EXCEPT !.newPassword = newPassword],
         PutMyPasswordInvalid(newPassword), "password too short")

GetUsers(s, auth) ==
  Arrive(s, "GET /users", auth, 0, NoFields, FALSE, "")

\* if (!name || !email || !role)
PutUserInvalid(name, email, role) == Falsy(name) \/ Falsy(email) \/ Falsy(role)

PutUser(s, auth, id, name, email, role) ==
  /\ variant = "pool"
  /\ Arrive(s, "PUT /users/:id", auth, id,
            [NoFields EXCEPT !.name = name, !.email = email, !.role = role],
            PutUserInvalid(name, email, role), "name, email, role required")

DeleteUsers(s, auth, id) ==
  Arrive(s, "DELETE /users/:id", auth, id, NoFields, FALSE, "")

(***************************************************************************)
(* Continuations: the handler resumes after an await.  Settle stores the   *)
(* handler's new state and gives back to the pool what finally released.   *)
(***************************************************************************)
Settle(s, r) ==
  /\ reqs' = [reqs EXCEPT ![s] = r]
  /\ checkedOut' = checkedOut - (r.releases - reqs[s].releases)

\* conn = await pool.getConnection();
AwaitGetConnection(s) ==
  /\ reqs[s].pc = "getConnection"
  /\ \/ /\ checkedOut < PoolSize
        /\ reqs' = [reqs EXCEPT ![s] = [reqs[s] EXCEPT !.conn = TRUE,
                                           !.pc = AfterConnection(reqs[s].route)]]
        /\ checkedOut' = checkedOut + 1
     \/ Settle(s, Throw(variant, reqs[s], "other"))
  /\ UNCHANGED <<variant, users, nextId, now, issued>>

\* await bcrypt.hash(password, saltRounds)
AwaitHash(s) ==
  /\ reqs[s].pc = "hash"
  /\ LET r == reqs[s]
         plain == IF r.route = "POST /users" THEN r.body.password ELSE r.body.newPassword
         next == IF r.route = "POST /users" THEN "insert" ELSE "updatePassword"
     IN \/ Settle(s, [r EXCEPT !.hashed = BcryptHash(plain), !.pc = next])
        \/ Settle(s, Throw(variant, r, "other"))
  /\ UNCHANGED <<variant, users, nextId, now, issued>>

\* POST /users: await query(INSERT ...), then 201, or the catch block
AwaitInsert(s) ==
  /\ reqs[s].pc = "insert"
  /\ LET r == reqs[s]
     IN \/ /\ ~EmailTaken(users, r.body.email, 0)
           /\ users' = users \cup {InsertRow(nextId, r.body, r.hashed)}
           /\ nextId' = nextId + 1
           /\ Settle(s, Finally(Respond(r, 201,
                  [k |-> "user", id |-> nextId, name |-> r.body.name, email |-> r.body.email])))
        \/ /\ EmailTaken(users, r.body.email, 0)
           /\ Settle(s, Throw(variant, r, UniqueViolation(variant)))
           /\ UNCHANGED <<users, nextId>>
        \/ /\ Settle(s, Throw(variant, r, "other"))
           /\ UNCHANGED <<users, nextId>>
  /\ UNCHANGED <<variant, now, issued>>

\* Mutant of LoginNoRow: an unknown email is answered 404.
LoginNoRowNotFound == [status |-> 404, res |-> ErrorBody("user not found")]

\* return res.status(401).json({ error: ... }) when users.length === 0
LoginNoRow == [status |-> 401, res |-> ErrorBody("authentication failed")]

\* res.status(401).json({ error: ... }) when isMatch is false
LoginMismatch == [status |-> 401, res |-> ErrorBody("authentication failed")]

\* POST /login: await query(SELECT ...), then 401 when no row came back
AwaitSelectByEmail(s) ==
  /\ reqs[s].pc = "selectByEmail"
  /\ LET r == reqs[s]
         rows == SelectByEmail(users, r.body.email)
     IN \/ /\ rows = {}
           /\ Settle(s, Finally(Respond(r, LoginNoRow.status, LoginNoRow.res)))
        \/ \E u \in rows : Settle(s, [r EXCEPT !.row = u, !.pc = "compare"])
        \/ Settle(s, Throw(variant, r, "other"))
  /\ UNCHANGED <<variant, users, nextId, now, issued>>

\* POST /login: await bcrypt.compare(password, user.password), then the token or 401
AwaitCompare(s) ==
  /\ reqs[s].pc = "compare"
  /\ LET r == reqs[s]
         token == JwtSign(r.row, JWT_SECRET, now)
     IN \/ /\ BcryptCompare(r.body.password, r.row.password)
           /\ issued' = issued \cup {token}
           /\ Settle(s, Finally(Respond(r, 200,
                  [k |-> "login", message |-> "login ok", token |-> token])))
        \/ /\ ~BcryptCompare(r.body.password, r.row.password)
           /\ Settle(s, Finally(Respond(r, LoginMismatch.status, LoginMismatch.res)))
           /\ UNCHANGED issued
        \/ /\ Settle(s, Throw(variant, r, "other"))
           /\ UNCHANGED issued
  /\ UNCHANGED <<variant, users, nextId, now>>

\* PUT /users/me/password: await query(UPDATE ... SET password ...), then 200
AwaitUpdatePassword(s) ==
  /\ reqs[s].pc = "updatePassword"
  /\ LET r == reqs[s]
     IN \/ /\ users' = UpdatePassword(users, r.user.id, r.hashed)
           /\ Settle(s, Finally(Respond(r, 200, [k |-> "message", message |-> "password updated"])))
        \/ /\ Settle(s, Throw(variant, r, "other"))
           /\ UNCHANGED users
  /\ UNCHANGED <<variant, nextId, now, issued>>

\* GET /users: await query(SELECT id, name, email, role ...), then 200
AwaitSelectAll(s) ==
  /\ reqs[s].pc = "selectAll"
  /\ LET r == reqs[s]
     IN \/ Settle(s, Finally(Respond(r, 200, [k |-> "rows", rows |-> SelectAll(users)])))
        \/ Settle(s, Throw(variant, r, "other"))
  /\ UNCHANGED <<variant, users, nextId, now, issued>>

\* PUT /users/:id: await query(UPDATE ... SET name, email, role ...), then 404 or 200
AwaitUpdateUser(s) ==
  /\ reqs[s].pc = "updateUser"
  /\ LET r == reqs[s]
     IN \/ /\ AffectedRows(users, r.id) = 0
           /\ Settle(s, Finally(Respond(r, 404, ErrorBody("user not found"))))
           /\ UNCHANGED users
        \/ /\ AffectedRows(users, r.id) # 0
           /\ ~EmailTaken(users, r.body.email, r.id)
           /\ users' = UpdateUser(users, r.id, r.body)
           /\ Settle(s, Finally(Respond(r, 200,
                  [k |-> "user", id |-> r.id, name |-> r.body.name,
                   email |-> r.body.email, role |-> r.body.role])))
        \/ /\ AffectedRows(users, r.id) # 0
           /\ EmailTaken(users, r.body.email, r.id)
           /\ Settle(s, Throw(variant, r, UniqueViolation(variant)))
           /\ UNCHANGED users
        \/ /\ Settle(s, Throw(variant, r, "other"))
           /\ UNCHANGED users
  /\ UNCHANGED <<variant, nextId, now, issued>>

\* DELETE /users/:id: await query(DELETE ...), then 404 or 204
AwaitDeleteUser(s) ==
  /\ reqs[s].pc = "deleteUser"
  /\ LET r == reqs[s]
     IN \/ /\ AffectedRows(users, r.id) = 0
           /\ Settle(s, Finally(Respond(r, 404, ErrorBody("user not found"))))
           /\ UNCHANGED users
        \/ /\ AffectedRows(users, r.id) # 0
           /\ users' = DeleteUser(users, r.id)
           /\ Settle(s, Finally(Respond(r, 204, NoBody)))
        \/ /\ Settle(s, Throw(variant, r, "other"))
           /\ UNCHANGED users
  /\ UNCHANGED <<variant, nextId, now, issued>>

\* The response has gone out; the slot is free for the next request.
Reap(s) ==
  /\ reqs[s].pc = "done"
  /\ reqs' = [reqs EXCEPT ![s] = IdleReq]
  /\ UNCHANGED <<variant, users, nextId, now, issued, checkedOut>>

\* Time passes.
Tick ==
  /\ \E t \in Instants : t > now /\ now' = t
  /\ UNCHANGED <<variant, users, nextId, issued, reqs, checkedOut>>

(***************************************************************************)
(* What a client can put in the Authorization header: nothing, an empty    *)
(* value, the scheme alone, something that is no JWT, a JWT it signed      *)
(* itself, or a token the service issued.                                  *)
(***************************************************************************)
Forged ==
  [k |-> "jwt", id |-> 1, email |-> "a@x", role |-> "admin",
   iat |-> 0, exp |-> 1000, sig |-> "guess"]

Headers ==
  {AbsentHeader, EmptyHeader, HeaderOf(<<BearerWord>>),
   HeaderOf(<<BearerWord, GarbageWord>>), HeaderOf(<<BearerWord, Forged>>)}
    \cup {HeaderOf(<<BearerWord, t>>) : t \in issued}

Continue(s) ==
  \/ AwaitGetConnection(s)
  \/ AwaitHash(s)
  \/ AwaitInsert(s)
  \/ AwaitSelectByEmail(s)
  \/ AwaitCompare(s)
  \/ AwaitUpdatePassword(s)
  \/ AwaitSelectAll(s)
  \/ AwaitUpdateUser(s)
  \/ AwaitDeleteUser(s)
  \/ Reap(s)

InitWith(slots) ==
  /\ variant \in {"pg", "pool"}
  /\ users = {SeedAdmin}
  /\ nextId = 2
  /\ now = 0
  /\ issued = {}
  /\ reqs = [s \in slots |-> IdleReq]
  /\ checkedOut = 0

Init == InitWith(Slots)

\* Well-formed bodies: the fields present, the password long enough.
ValidNames == Names \ {""}
ValidEmails == Emails \ {""}
ValidPasswords == {p \in Passwords : Len(p) >= MinPasswordLength}
ValidRoles == Roles \ {""}

\* The service, one request at a time, under every kind of Authorization
\* header and well-formed bodies, while time passes.
Next ==
  \/ \E s \in Slots :
       \/ \E e \in ValidEmails : PostUsers(s, "taro", e, "password2")
       \/ \E e \in ValidEmails, p \in ValidPasswords : PostLogin(s, e, p)
       \/ \E h \in Headers : PutMyPassword(s, h, "password2")
       \/ \E h \in Headers : GetUsers(s, h)
       \/ \E h \in Headers, i \in Ids : PutUser(s, h, i, "taro", "a@x", "user")
       \/ \E h \in Headers, i \in Ids : DeleteUsers(s, h, i)
       \/ Continue(s)
  \/ Tick

Spec == Init /\ [][Next]_vars

\* Headers carrying a token the service issued.
IssuedHeaders == {HeaderOf(<<BearerWord, t>>) : t \in issued}

\* The service, one request at a time, under every body (fields missing,
\* passwords too short, emails taken or unknown, ids that exist or not),
\* sent by clients that hold an issued token where the route needs one.
NextStore ==
  \E s \in Slots :
    \/ \E n \in Names, e \in Emails, p \in Passwords : PostUsers(s, n, e, p)
    \/ \E e \in Emails, p \in Passwords : PostLogin(s, e, p)
    \/ \E h \in IssuedHeaders, p \in Passwords : PutMyPassword(s, h, p)
    \/ \E h \in IssuedHeaders : GetUsers(s, h)
    \/ \E h \in IssuedHeaders, i \in Ids, n \in Names, e \in Emails, ro \in Roles :
         PutUser(s, h, i, n, e, ro)
    \/ \E h \in IssuedHeaders, i \in Ids : DeleteUsers(s, h, i)
    \/ Continue(s)

SpecStore == Init /\ [][NextStore]_vars

\* Two requests in flight at once, their handlers interleaving at every
\* await.
InitRace == InitWith(Slots2)

RaceHeaders == IssuedHeaders \cup {AbsentHeader, HeaderOf(<<BearerWord, Forged>>)}

NextRace ==
  \E s \in Slots2 :
    \/ \E e \in ValidEmails, p \in {"seven77", "password2"} : PostUsers(s, "taro", e, p)
    \/ \E e \in ValidEmails, p \in {"", "password"} : PostLogin(s, e, p)
    \/ \E h \in RaceHeaders, p \in {"seven77", "password2"} :
         PutMyPassword(s, h, p)
    \/ \E h \in RaceHeaders : GetUsers(s, h)
    \/ \E h \in RaceHeaders, i \in Ids, ro \in {"", "user"} :
         PutUser(s, h, i, "taro", "a@x", ro)
    \/ \E h \in RaceHeaders, i \in Ids : DeleteUsers(s, h, i)
    \/ Continue(s)

SpecRace == InitRace /\ [][NextRace]_vars

(***************************************************************************)
(* Vocabulary of the properties.                                           *)
(***************************************************************************)
GuardedRoutes ==
  {"PUT /users/me/password", "GET /users", "PUT /users/:id", "DELETE /users/:id"}
AdminRoutes == {"GET /users", "PUT /users/:id", "DELETE /users/:id"}

\* Slot s takes a request in this step.
Arrives(s) == reqs[s].pc = "idle" /\ reqs'[s].pc # "idle"

\* A guard answered the request: it is over, and no handler code ran for it.
ShortCircuited(r, status) ==
  /\ r.pc = "done" /\ r.status = status /\ r.res = NoBody
  /\ r.user = Undefined /\ ~r.conn /\ r.hashed = Undefined /\ r.err = "none"

\* The header carries no token: there is no header, or no second field in it.
HeaderHasNoToken(h) == ~h.present \/ Len(h.parts) < 2

\* The header carries a token the service issued less than an hour before t.
HeaderHasLiveToken(h, t) ==
  /\ h.present /\ Len(h.parts) >= 2
  /\ h.parts[2] \in issued
  /\ t < h.parts[2].iat + 60

ClaimsMatch(user, token) ==
  /\ user # Undefined
  /\ user.id = token.id /\ user.email = token.email /\ user.role = token.role

RefusedByGuard(r) == r.pc = "done" /\ r.status \in {401, 403}

(* C1: on every guarded route, a request with no token in its Authorization
   header is answered 401, one whose token is invalid or expired 403, in both
   cases without any later guard or handler running; only a token that
   verifies gets its claims attached to the request. *)
C1_GuardAnswers ==
  [][\A s \in DOMAIN reqs :
       Arrives(s) /\ reqs'[s].route \in GuardedRoutes =>
         LET r == reqs'[s]
         IN /\ HeaderHasNoToken(r.auth) => ShortCircuited(r, 401)
            /\ ~HeaderHasNoToken(r.auth) /\ ~HeaderHasLiveToken(r.auth, now)
                 => ShortCircuited(r, 403)
            /\ HeaderHasLiveToken(r.auth, now) => ClaimsMatch(r.user, r.auth.parts[2])
            /\ r.user # Undefined => HeaderHasLiveToken(r.auth, now)]_vars

(* C1, apart from the empty header: with "no token" read as the code reads
   it (no header, or a header that is not empty and has no second field),
   the guard answers as C1 says. *)
C1_ExceptEmptyHeader ==
  [][\A s \in DOMAIN reqs :
       Arrives(s) /\ reqs'[s].route \in GuardedRoutes =>
         LET r == reqs'[s]
             none == HeaderHasNoToken(r.auth) /\ r.auth # EmptyHeader
         IN /\ none => ShortCircuited(r, 401)
            /\ ~none /\ ~HeaderHasLiveToken(r.auth, now) => ShortCircuited(r, 403)
            /\ HeaderHasLiveToken(r.auth, now) => ClaimsMatch(r.user, r.auth.parts[2])
            /\ r.user # Undefined => HeaderHasLiveToken(r.auth, now)]_vars

(* C2: on an admin-only route, a valid token whose role is not admin is
   answered 403 and the handler never runs; a valid token whose role is admin
   reaches the handler. *)
C2_AdminOnly ==
  [][\A s \in DOMAIN reqs :
       Arrives(s) /\ reqs'[s].route \in AdminRoutes
                  /\ HeaderHasLiveToken(reqs'[s].auth, now) =>
         LET r == reqs'[s]
             role == r.auth.parts[2].role
         IN /\ role # "admin" =>
                 /\ r.pc = "done" /\ r.status = 403 /\ r.res = NoBody
                 /\ ~r.conn /\ r.hashed = Undefined /\ r.err = "none"
                 /\ UNCHANGED <<users, nextId, issued, checkedOut>>
            /\ role = "admin" =>
                 r.pc = FirstAwait(variant, r.route) \/ (r.pc = "done" /\ r.status = 400)]_vars

C2_Witness ==
  \E s \in DOMAIN reqs :
    /\ reqs[s].route \in AdminRoutes
    /\ reqs[s].user # Undefined /\ reqs[s].user.role = "user"
    /\ reqs[s].pc = "done" /\ reqs[s].status = 403

(* C3: a token a login issued at time T is accepted by the authenticate guard
   at every time before T + 60 minutes and answered 403 at every time after. *)
C3_OneHour ==
  [][/\ \A t \in issued' \ issued : t.iat = now
     /\ \A s \in DOMAIN reqs :
          Arrives(s) /\ reqs'[s].route \in GuardedRoutes
                     /\ reqs'[s].auth \in IssuedHeaders =>
            LET r == reqs'[s]
                t == r.auth.parts[2]
            IN /\ now < t.iat + 60 => r.user # Undefined /\ r.status # 401
               /\ now > t.iat + 60 => ShortCircuited(r, 403)]_vars

C3_Witness ==
  \E s \in DOMAIN reqs :
    /\ reqs[s].route = "PUT /users/me/password"
    /\ reqs[s].auth \in IssuedHeaders
    /\ reqs[s].auth.parts[2].iat = 0 /\ now = 61
    /\ reqs[s].pc = "done" /\ reqs[s].status = 403

(* C7: an issued token keeps passing the authenticate guard, and the admin
   guard if its role claim is admin, until it expires, whatever has happened
   to its user's record since; the claims attached are those of the token,
   and no step of the service takes an issued token away. *)
C7_NotRevocable ==
  [][/\ issued \subseteq issued'
     /\ \A s \in DOMAIN reqs :
          Arrives(s) /\ reqs'[s].route \in GuardedRoutes
                     /\ HeaderHasLiveToken(reqs'[s].auth, now) =>
            LET r == reqs'[s]
                t == r.auth.parts[2]
            IN /\ ClaimsMatch(r.user, t)
               /\ (r.route \notin AdminRoutes \/ t.role = "admin") => ~RefusedByGuard(r)]_vars

\* The admin whose row was deleted, or who is no longer admin in the store,
\* lists the users with the token issued before.
C7_Witness ==
  \E s \in DOMAIN reqs :
    /\ reqs[s].route = "GET /users" /\ reqs[s].pc = "done" /\ reqs[s].status = 200
    /\ reqs[s].auth \in IssuedHeaders
    /\ ~\E u \in users : u.id = reqs[s].auth.parts[2].id

\* The handler in slot s sends its response in this step.
Finishes(s, route, pc) ==
  reqs[s].route = route /\ reqs[s].pc = pc /\ reqs'[s].pc = "done"

UniqueEmails(table) == \A u, w \in table : u.email = w.email => u = w

(* C4: however register requests interleave, one whose INSERT meets a record
   with its email is answered 409 and adds nothing, and the store never
   holds two records with the same email. *)
C4_OneRecordPerEmail ==
  [][/\ UniqueEmails(users')
     /\ \A s \in DOMAIN reqs :
          Finishes(s, "POST /users", "insert") /\ reqs'[s].err # "other" =>
            IF \E u \in users : u.email = reqs[s].body.email
            THEN reqs'[s].status = 409 /\ users' = users
            ELSE reqs'[s].status = 201
                 /\ Cardinality({u \in users' : u.email = reqs[s].body.email}) = 1]_vars

\* Two registrations of the same email, both answered: one 201, one 409,
\* and one record with that email.
C4_Witness ==
  /\ DOMAIN reqs = {1, 2}
  /\ reqs[1].route = "POST /users" /\ reqs[2].route = "POST /users"
  /\ reqs[1].body.email = reqs[2].body.email
  /\ reqs[1].pc = "done" /\ reqs[2].pc = "done"
  /\ {reqs[1].status, reqs[2].status} = {201, 409}
  /\ Cardinality({u \in users : u.email = reqs[1].body.email}) = 1

(* C5: a login with an email that has no record and a login with a registered
   email and a wrong password are answered alike: 401 with the same body
   (and, when the store or bcrypt fails, 500 with the same body). *)
C5_LoginFailuresAlike ==
  [][\A s \in DOMAIN reqs :
       LET r == reqs[s]
           unknown == /\ Finishes(s, "POST /login", "selectByEmail")
                      /\ ~\E u \in users : u.email = r.body.email
           wrong == /\ Finishes(s, "POST /login", "compare")
                    /\ r.row.email = r.body.email
                    /\ r.row.password # BcryptHash(r.body.password)
       IN unknown \/ wrong =>
            IF reqs'[s].err = "none"
            THEN reqs'[s].status = 401
                 /\ reqs'[s].res = [k |-> "error", error |-> "authentication failed"]
            ELSE reqs'[s].status = 500
                 /\ reqs'[s].res = [k |-> "error", error |-> "server error"]]_vars

C5_Witness ==
  \E s \in DOMAIN reqs :
    /\ reqs[s].route = "POST /login" /\ reqs[s].pc = "done"
    /\ reqs[s].status = 401 /\ reqs[s].row # Undefined
    /\ reqs[s].row.password # BcryptHash(reqs[s].body.password)

(* C6: a delete of an id no record has is answered 404 and leaves the store
   as it was; a delete of an id a record has is answered 204, removes that
   record and leaves every other record as it was. *)
C6_DeleteExactlyOne ==
  [][\A s \in DOMAIN reqs :
       Finishes(s, "DELETE /users/:id", "deleteUser") =>
         LET id == reqs[s].id
         IN IF reqs'[s].err # "none" THEN users' = users
            ELSE IF \E u \in users : u.id = id
            THEN /\ reqs'[s].status = 204
                 /\ ~\E u \in users' : u.id = id
                 /\ \A u \in users : u.id # id => u \in users'
                 /\ users' \subseteq users
            ELSE reqs'[s].status = 404 /\ users' = users]_vars

\* A record was deleted and another one is still there.
C6_Witness ==
  \E s \in DOMAIN reqs :
    /\ reqs[s].route = "DELETE /users/:id" /\ reqs[s].pc = "done"
    /\ reqs[s].status = 204 /\ users # {}
    /\ ~\E u \in users : u.id = reqs[s].id

(* C8: on every route, a store operation that fails with a unique-constraint
   violation is answered 409 and every other store error 500. *)
C8_ConflictEverywhere ==
  \A s \in DOMAIN reqs :
    reqs[s].pc = "done" =>
      /\ reqs[s].err \in {"23505", "ER_DUP_ENTRY"} => reqs[s].status = 409
      /\ reqs[s].err = "other" => reqs[s].status = 500

(* C9: in the connection-pool variant a handler releases the connection it
   checked out exactly once, by the time it has answered and not before,
   whatever path it leaves by; a handler whose checkout failed releases
   nothing; the pool's count of checked-out connections is the number of
   handlers holding one, and zero when no request is in flight. *)
C9_ReleasedOnce ==
  /\ \A s \in DOMAIN reqs :
       /\ reqs[s].pc = "done" => reqs[s].releases = (IF reqs[s].conn THEN 1 ELSE 0)
       /\ reqs[s].pc # "done" => reqs[s].releases = 0
       /\ reqs[s].conn => variant = "pool"
  /\ checkedOut = Cardinality({s \in DOMAIN reqs : reqs[s].conn /\ reqs[s].releases = 0})
  /\ (\A s \in DOMAIN reqs : reqs[s].pc \in {"idle", "done"}) => checkedOut = 0

\* Two handlers have answered from inside try, one by an early return, and
\* the pool is whole again.
C9_Witness ==
  /\ variant = "pool" /\ checkedOut = 0
  /\ \A s \in DOMAIN reqs : reqs[s].pc = "done" /\ reqs[s].conn /\ reqs[s].releases = 1
  /\ \E s \in DOMAIN reqs : reqs[s].status \in {401, 404} /\ reqs[s].err = "none"

(* C10: a register request whose name, email or password is missing, or
   whose password has fewer than 8 characters, is answered 400 and nothing
   else happens: no connection, no hash, no statement, no record. *)
C10_InvalidRegistration ==
  [][\A s \in DOMAIN reqs :
       Arrives(s) /\ reqs'[s].route = "POST /users" =>
         LET r == reqs'[s]
             b == r.body
         IN b.name = "" \/ b.email = "" \/ b.password = "" \/ Len(b.password) < 8 =>
              /\ r.pc = "done" /\ r.status = 400
              /\ ~r.conn /\ r.hashed = Undefined /\ r.err = "none"
              /\ UNCHANGED <<users, nextId, checkedOut>>]_vars

C10_Witness ==
  \E s \in DOMAIN reqs :
    /\ reqs[s].route = "POST /users" /\ reqs[s].pc = "done" /\ reqs[s].status = 400
    /\ reqs[s].body.name # "" /\ reqs[s].body.email # ""
    /\ Len(reqs[s].body.password) = 7

====
